---- MODULE Spec2Model ----
(***************************************************************************)
(* A model of two subsystems of the lnd fork:                              *)
(*                                                                         *)
(*   - the sorceror (watchtower) store: AddDesc, AddMsg and CheckTxids on  *)
(*     a bolt database with the buckets pkm, cda and txi                   *)
(*     (specification SpecSorceror);                                       *)
(*   - the channel shell commands FundChannel, Resume, Push, CloseChannel  *)
(*     and BreakChannel working one channel with one connected peer        *)
(*     (specification SpecShell).                                          *)
(*                                                                         *)
(* The elkrem package and the qln channel engine are called by this code   *)
(* but are not among its files; their behaviour is taken from the          *)
(* specification document and is marked as such where it is defined.       *)
(***************************************************************************)
EXTENDS Integers, Sequences, FiniteSets, TLC

VARIABLES
    db,       \* sorceror: the bolt database, bucket name -> contents
    tret,     \* sorceror: the last call and what it returned: [op, arg, err, n, hits]
    owners,   \* sorceror history: txid key -> txids AddMsg has stored under it
    RemoteCon,  \* shell: TRUE while a peer is connected
    InProg,     \* shell: the channel being funded, [PeerIdx, ChanIdx, Amt, InitSend]
    qchan,      \* shell: the stored channel (peer 1, channel 1)
    push,       \* shell: the Push command in progress, [pc, amt, times]
    last,       \* shell: the last step taken and the error it returned
    wallet,     \* shell: the last transaction signed and the last one broadcast
    peer,       \* the peer's side of the channel, [StateIdx, Delta, Closed]
    toPeer,     \* messages written to the connection, not yet read by the peer
    fromPeer    \* messages the peer has written, not yet handled

sorceVars == <<db, tret, owners>>
shellVars ==
    <<RemoteCon, InProg, qchan, push, last, wallet, peer, toPeer, fromPeer>>
vars == <<sorceVars, shellVars>>

(***************************************************************************)
(* Sorceror: values                                                        *)
(***************************************************************************)

\* Highest elkrem index a state message may carry.
MaxElk == 2
\* Longest txid list handed to CheckTxids.
MaxTxids == 2

\* 20-byte destination PKH scripts.
PKHs == {1, 2}
\* The static part of a descriptor (its first 96 bytes without the PKH).
Statics == {7}
\* Elkrem senders (roots); a hash is <<root, index>>.  The channels'
\* sender is root 1; of the foreign sender one hash is enough.
Roots == {1, 2}
Hashes == {h \in Roots \X (1..MaxElk) : h[1] = 1 \/ h[2] = 1}
\* 64-byte signatures; 0 stands for 64 zero bytes.
Sigs == {5}
\* A 32-byte txid in three chunks: bytes 0..7, 8..15 and 16..31.
\* Chunk 0 stands for zero bytes.
Txids == {<<1, 1, 1>>, <<1, 2, 1>>, <<2, 1, 1>>}

Descs == [DestPKHScript : PKHs, Static : Statics, ElkZero : {<<1, 0>>}]
Msgs == [DestPKHScript : PKHs, Elk : Hashes, Txid : Txids, Sig : Sigs]

\* Steps of a transaction at which the database or the elkrem code may fail.
DescFaults == {"none", "toBytes", "putElk", "putIdx", "putMap"}
MsgFaults == {"none", "toBytes", "putElk", "putTxid"}

Nil == <<>>

BUCKETPKHMap == "pkm"
BUCKETChandata == "cda"
BUCKETTxid == "txi"
KEYStatic == "sta"
KEYElkRcv == "elk"
KEYIdx == "idx"

(***************************************************************************)
(* Sorceror: byte conversions                                              *)
(***************************************************************************)

\* uint32 to 4 bytes, big endian.
U32tB(i) ==
    << (i \div 16777216) % 256, (i \div 65536) % 256, (i \div 256) % 256, i % 256 >>

\* int64 to 8 bytes, big endian.  The values converted here are below 2^31,
\* so the four high bytes are zero.
I64tB(i) == <<0, 0, 0, 0>> \o U32tB(i)

\* The reading of big-endian bytes as a number (used to state properties).
RECURSIVE BtI(_)
BtI(b) == IF b = <<>> THEN 0 ELSE 256 * BtI(SubSeq(b, 1, Len(b) - 1)) + b[Len(b)]

\* SorceDescriptor.ToBytes: the static part first, elkrem zero last.
DescToBytes(sd) == <<sd.DestPKHScript, sd.Static>> \o <<sd.ElkZero[1], sd.ElkZero[2]>>
\* sdBytes[:96]: the descriptor without elk0.
StaticOf(sdBytes) == SubSeq(sdBytes, 1, 2)

\* Txid[:16] (the key the file's header describes), Txid[:8], and the copy
\* of Txid[:16] into a zeroed 32-byte array.
TxidKey16(txid) == <<txid[1], txid[2]>>
TxidKey(txid) == <<txid[1]>>
TxidCopy16(txid) == <<txid[1], txid[2], 0>>

(***************************************************************************)
(* Elkrem receiver (package elkrem; behaviour from the specification):     *)
(* the hashes received so far, oldest first.                               *)
(***************************************************************************)

EmptyReceiver == <<>>

\* UpTo: the index of the last hash received.
UpTo(rcv) == Len(rcv) - 1

\* AddNext fails if the hash is not consistent with the hashes received
\* before it; otherwise it appends the hash and advances upTo.
AddNext(rcv, h) ==
    IF rcv = <<>> \/ (h[1] = rcv[1][1] /\ h[2] = UpTo(rcv) + 1)
    THEN [err |-> "ok", rcv |-> Append(rcv, h)]
    ELSE [err |-> "elkrem: hash does not match", rcv |-> rcv]

\* ToBytes: upTo, then the retained hashes.
RECURSIVE FlatHashes(_)
FlatHashes(rcv) ==
    IF rcv = <<>> THEN <<>> ELSE <<rcv[1][1], rcv[1][2]>> \o FlatHashes(Tail(rcv))

ElkToBytes(rcv) == <<Len(rcv)>> \o FlatHashes(rcv)

\* ElkremReceiverFromBytes: fails on bytes that are no serialized receiver.
ElkremReceiverFromBytes(b) ==
    IF b = <<>> \/ Len(b) # 1 + 2 * b[1]
    THEN [err |-> "elkrem: bad bytes", rcv |-> EmptyReceiver]
    ELSE [err |-> "ok", rcv |-> [i \in 1..b[1] |-> <<b[2 * i], b[2 * i + 1]>>]]

(***************************************************************************)
(* Bolt: buckets are functions from keys to values; a nested bucket is a   *)
(* value that is itself such a function.                                   *)
(***************************************************************************)

HasBucket(d, name) == name \in DOMAIN d
Get(bkt, key) == IF key \in DOMAIN bkt THEN bkt[key] ELSE Nil
Put(bkt, key, val) == [k \in DOMAIN bkt \cup {key} |-> IF k = key THEN val ELSE bkt[k]]
\* The count of keys taken one too high.
KeyNOffByOne(bkt) == Cardinality(DOMAIN bkt) + 1
KeyN(bkt) == Cardinality(DOMAIN bkt)
EmptyBucket == [k \in {} |-> Nil]

\* A put into the channel bucket of pkh, and one into a top-level bucket.
PutChan(d, pkh, key, val) ==
    [d EXCEPT ![BUCKETChandata] = Put(@, pkh, Put(Get(@, pkh), key, val))]
PutTop(d, name, key, val) == [d EXCEPT ![name] = Put(@, key, val)]

Ret(e, d) == [err |-> e, db |-> d]

\* DB.Update without the rollback: what the function wrote stays.
UpdateNoRollback(d, r) == r.db

\* DB.Update: the function's writes are committed if it returns nil and
\* rolled back if it returns an error.
Update(d, r) == IF r.err = "ok" THEN r.db ELSE d

(***************************************************************************)
(* Sorceror.AddDesc                                                        *)
(***************************************************************************)

\* The function AddDesc runs inside the transaction: its error and the
\* database as it has written it when it returns.
AddDescTx(d, sd, fault) ==
    IF ~HasBucket(d, BUCKETPKHMap) THEN Ret("no PKHmap bucket", d)
    ELSE LET cIdxBytes == U32tB(KeyN(d[BUCKETPKHMap])) IN
    IF ~HasBucket(d, BUCKETChandata) THEN Ret("no Chandata bucket", d)
    ELSE IF sd.DestPKHScript \in DOMAIN d[BUCKETChandata]
    THEN Ret("bucket already exists", d)
    ELSE LET d1 == [d EXCEPT ![BUCKETChandata] = Put(@, sd.DestPKHScript, EmptyBucket)]
             sdBytes == DescToBytes(sd)
             \* the error of this put is not looked at; with a fixed key and
             \* a value of 96 bytes bolt has no reason to refuse it
             d2 == PutChan(d1, sd.DestPKHScript, KEYStatic, StaticOf(sdBytes))
             elkr == AddNext(EmptyReceiver, sd.ElkZero).rcv
             elkBytes == ElkToBytes(elkr)
         IN
    IF fault = "toBytes" THEN Ret("elkrem: cannot serialize", d2)
    ELSE IF fault = "putElk" THEN Ret("put elk failed", d2)
    ELSE LET d3 == PutChan(d2, sd.DestPKHScript, KEYElkRcv, elkBytes) IN
    IF fault = "putIdx" THEN Ret("put idx failed", d3)
    ELSE LET d4 == PutChan(d3, sd.DestPKHScript, KEYIdx, cIdxBytes) IN
    IF fault = "putMap" THEN Ret("put pkhmap failed", d4)
    ELSE Ret("ok", PutTop(d4, BUCKETPKHMap, cIdxBytes, sd.DestPKHScript))

(***************************************************************************)
(* Sorceror.AddMsg                                                         *)
(***************************************************************************)

\* The 74 bytes of a txid record: channel index (4), state number (6),
\* signature (64, one element here).
\* The record with the six high bytes of the state number instead of the
\* six low ones.
SigIdxBytesHighBytes(cIdxBytes, stateNumBytes, sig) ==
    SubSeq(cIdxBytes, 1, 4) \o SubSeq(stateNumBytes, 1, 6) \o <<sig>>

SigIdxBytes(cIdxBytes, stateNumBytes, sig) ==
    SubSeq(cIdxBytes, 1, 4) \o SubSeq(stateNumBytes, 3, 8) \o <<sig>>

\* The function AddMsg runs inside the transaction.  checkElk is TRUE in
\* the program: the error of AddNext ends the function.
AddMsgBody(d, sm, fault, checkElk) ==
    IF ~HasBucket(d, BUCKETChandata) THEN Ret("no Chandata bucket", d)
    ELSE IF sm.DestPKHScript \notin DOMAIN d[BUCKETChandata]
    THEN Ret("no bucket for channel", d)
    ELSE LET cbkt == d[BUCKETChandata][sm.DestPKHScript]
             parsed == ElkremReceiverFromBytes(Get(cbkt, KEYElkRcv))
         IN
    IF parsed.err # "ok" THEN Ret(parsed.err, d)
    ELSE LET added == AddNext(parsed.rcv, sm.Elk) IN
    IF checkElk /\ added.err # "ok" THEN Ret(added.err, d)
    ELSE LET stateNumBytes == I64tB(UpTo(added.rcv))
             elkBytes == ElkToBytes(added.rcv)
         IN
    IF fault = "toBytes" THEN Ret("elkrem: cannot serialize", d)
    ELSE IF fault = "putElk" THEN Ret("put elk failed", d)
    ELSE LET d1 == PutChan(d, sm.DestPKHScript, KEYElkRcv, elkBytes)
             cIdxBytes == Get(d1[BUCKETChandata][sm.DestPKHScript], KEYIdx)
         IN
    IF cIdxBytes = Nil THEN Ret("channel has no index", d1)
    ELSE IF ~HasBucket(d1, BUCKETTxid) THEN Ret("no txid bucket", d1)
    ELSE LET sigIdxBytes == SigIdxBytes(cIdxBytes, stateNumBytes, sm.Sig) IN
    IF fault = "putTxid" THEN Ret("put txid failed", d1)
    ELSE Ret("ok", PutTop(d1, BUCKETTxid, TxidKey(sm.Txid), sigIdxBytes))

\* AddMsg's function with the error of AddNext not looked at.
AddMsgTxIgnoringElkErr(d, sm, fault) == AddMsgBody(d, sm, fault, FALSE)

AddMsgTx(d, sm, fault) == AddMsgBody(d, sm, fault, TRUE)

(***************************************************************************)
(* Sorceror.CheckTxids                                                     *)
(***************************************************************************)

ZeroStateMsg == [DestPKHScript |-> 0, Elk |-> <<0, 0>>, Txid |-> <<0, 0, 0>>, Sig |-> 0]

\* The StateMsgs returned for the txids that are in the txid bucket, in the
\* order of the input: each holds the first 16 bytes of its txid only.
RECURSIVE HitTxids(_, _)
HitTxids(d, inTxids) ==
    IF inTxids = <<>> THEN <<>>
    ELSE LET txid == Head(inTxids)
             idxsig == Get(d[BUCKETTxid], TxidKey(txid))
         IN (IF idxsig # Nil
             THEN << [ZeroStateMsg EXCEPT !.Txid = TxidCopy16(txid)] >>
             ELSE <<>>) \o HitTxids(d, Tail(inTxids))

(***************************************************************************)
(* Sorceror: the state machine                                             *)
(***************************************************************************)

\* The txids of a block: no txid twice.
TxidLists ==
    {l \in UNION { [1..n -> Txids] : n \in 0..MaxTxids } :
        \A i, j \in 1..Len(l) : i # j => l[i] # l[j]}

\* The txids AddMsg has stored records for under a key.
OwnersOf(key) == IF key \in DOMAIN owners THEN owners[key] ELSE {}

InitSorce ==
    /\ db = [b \in {BUCKETPKHMap, BUCKETChandata, BUCKETTxid} |-> EmptyBucket]
    /\ tret = [op |-> "none", arg |-> Nil, err |-> "ok", n |-> 0, hits |-> <<>>]
    /\ owners = [k \in {} |-> {}]

AddDesc(sd, fault) ==
    LET r == AddDescTx(db, sd, fault) IN
    /\ db' = Update(db, r)
    /\ tret' = [op |-> "AddDesc", arg |-> Nil, err |-> r.err, n |-> 0, hits |-> <<>>]
    /\ UNCHANGED <<owners, shellVars>>

AddMsg(sm, fault) ==
    LET r == AddMsgTx(db, sm, fault)
        key == TxidKey(sm.Txid)
    IN
    /\ db' = Update(db, r)
    /\ tret' = [op |-> "AddMsg", arg |-> <<sm.DestPKHScript, sm.Elk>>, err |-> r.err,
                n |-> 0, hits |-> <<>>]
    /\ owners' = IF r.err = "ok"
                 THEN Put(owners, key, OwnersOf(key) \cup {sm.Txid})
                 ELSE owners
    /\ UNCHANGED shellVars

CheckTxids(inTxids) ==
    /\ tret' = [op |-> "CheckTxids", arg |-> Nil, err |-> "ok", n |-> Len(inTxids),
                hits |-> HitTxids(db, inTxids)]
    /\ UNCHANGED <<db, owners, shellVars>>

NextSorce ==
    \/ \E sd \in Descs, f \in DescFaults : AddDesc(sd, f)
    \/ \E sm \in Msgs, f \in MsgFaults : AddMsg(sm, f)
    \/ \E txs \in TxidLists : CheckTxids(txs)

(***************************************************************************)
(* Shell: values                                                           *)
(***************************************************************************)

\* Updates begun on the channel, by either side.
MaxUpdates == 2
\* Messages in flight in one direction.
MaxQueue == 2
\* fund: the least capacity, and push: the largest amount.
MinCapacity == 1000000
MaxPush == 100000000

\* Arguments of the commands.
Capacities == {MinCapacity - 1, MinCapacity}
InitSends == {0 - 1, 0, MinCapacity + 1}
PushAmts == {0, 3, MaxPush, MaxPush + 1}
PushTimes == 0..MaxUpdates
PeerIdxs == {1, 2}
ChanIdxs == {1, 2}
\* Amounts the peer pushes.
PeerPushAmts == {2}

\* The index of the connected peer, and of the one channel followed.
ConnectedPeerIdx == 1
TheChanIdx == 1

NoInProg == [PeerIdx |-> 0, ChanIdx |-> 0, Amt |-> 0, InitSend |-> 0]
NoChan == [Exists |-> FALSE, Cap |-> 0, StateIdx |-> 0, MyAmt |-> 0, TheirAmt |-> 0,
           Delta |-> 0, Closed |-> FALSE]
NoPush == [pc |-> "idle", amt |-> 0, times |-> 0]
NoTx == [kind |-> "none", StateIdx |-> 0, MyAmt |-> 0, TheirAmt |-> 0, Delta |-> 0]
NoPeer == [StateIdx |-> 0, Delta |-> 0, Closed |-> FALSE]

Msg(t, i, a) == [type |-> t, idx |-> i, amt |-> a]

(***************************************************************************)
(* The channel engine (package qln; behaviour from the specification)      *)
(***************************************************************************)

\* The least balance a push must leave with the pusher.
MinBal == 1

\* GetPeerIdx: the index of the connected peer.
GetPeerIdx == [err |-> "ok", idx |-> ConnectedPeerIdx]

\* NextIdxForPeer: the indices of the next channel with the peer.
NextIdxForPeer == [err |-> "ok", peerIdx |-> ConnectedPeerIdx, cIdx |-> TheChanIdx]

\* GetQchanByIdx: the stored channel, or an error if there is none.
GetQchanByIdx(peerIdx, cIdx) ==
    IF qchan.Exists /\ peerIdx = ConnectedPeerIdx /\ cIdx = TheChanIdx
    THEN [err |-> "ok", qc |-> qchan]
    ELSE [err |-> "no such channel", qc |-> NoChan]

\* ReloadQchan: the channel as it is stored now.
ReloadQchan(qc) == qchan

\* PushChannel without the check that no update is in flight.
PushChannelUnchecked(qc, amt) ==
    IF ~RemoteCon THEN [err |-> "not connected", q |-> qc]
    ELSE IF qchan.Closed THEN [err |-> "channel closed", q |-> qc]
    ELSE IF amt < 1 \/ amt > MaxPush THEN [err |-> "bad amount", q |-> qc]
    ELSE IF amt > qchan.MyAmt - MinBal THEN [err |-> "not enough money", q |-> qc]
    ELSE [err |-> "ok", q |-> [qchan EXCEPT !.Delta = amt]]

\* PushChannel: Open -> UpdatePending(amt).  Rejected while an update is
\* in flight (delta # 0), on a closed channel, without a peer, and for an
\* amount that is out of range or leaves less than the reserve.  q is the
\* channel as saved; SIG is sent after the save.
PushChannel(qc, amt) ==
    IF ~RemoteCon THEN [err |-> "not connected", q |-> qc]
    ELSE IF qchan.Closed THEN [err |-> "channel closed", q |-> qc]
    ELSE IF qchan.Delta # 0 THEN [err |-> "update in progress", q |-> qc]
    ELSE IF amt < 1 \/ amt > MaxPush THEN [err |-> "bad amount", q |-> qc]
    ELSE IF amt > qchan.MyAmt - MinBal THEN [err |-> "not enough money", q |-> qc]
    ELSE [err |-> "ok", q |-> [qchan EXCEPT !.Delta = amt]]

\* The commit of an update with only my balance moved.
CommitMineOnly(q) ==
    [q EXCEPT !.StateIdx = @ + 1, !.MyAmt = @ - q.Delta, !.Delta = 0]

\* The commit of the update in flight: the next state index, the delta
\* (positive for the pusher, negative for the recipient) moved from my
\* balance to theirs, the channel clean again.
Commit(q) ==
    [q EXCEPT !.StateIdx = @ + 1, !.MyAmt = @ - q.Delta, !.TheirAmt = @ + q.Delta,
              !.Delta = 0]

\* SendNextMsg: the last outbound message of the channel's state: SIG for
\* an update I pushed, SIGREV for one pushed to me, REV on a clean channel.
SendNextMsg(qc) ==
    IF qc.Delta > 0 THEN Msg("SIG", qc.StateIdx + 1, qc.Delta)
    ELSE IF qc.Delta < 0 THEN Msg("SIGREV", qc.StateIdx + 1, 0)
    ELSE Msg("REV", qc.StateIdx, 0)

\* What handling SIGREV does without the check of the channel's state.
OnSigRevUnchecked(q, m) == [q |-> Commit(q), reply |-> <<Msg("REV", m.idx, 0)>>]

\* The channel after a message of the update exchange, and the reply.
\* A message that does not fit the channel's state is dropped.
OnSig(q, m) ==
    IF q.Closed \/ m.idx # q.StateIdx + 1 THEN [q |-> q, reply |-> <<>>]
    ELSE IF q.Delta = 0
    THEN [q |-> [q EXCEPT !.Delta = 0 - m.amt], reply |-> <<Msg("SIGREV", m.idx, 0)>>]
    ELSE IF q.Delta = 0 - m.amt THEN [q |-> q, reply |-> <<Msg("SIGREV", m.idx, 0)>>]
    ELSE [q |-> q, reply |-> <<>>]

OnSigRev(q, m) ==
    IF q.Closed \/ m.idx # q.StateIdx + 1 \/ q.Delta <= 0 THEN [q |-> q, reply |-> <<>>]
    ELSE [q |-> Commit(q), reply |-> <<Msg("REV", m.idx, 0)>>]

OnRev(q, m) ==
    IF q.Closed \/ m.idx # q.StateIdx + 1 \/ q.Delta >= 0 THEN [q |-> q, reply |-> <<>>]
    ELSE [q |-> Commit(q), reply |-> <<>>]

\* ElkRcv.AtIndex(0): fails until a revocation hash has been received,
\* which is with the first completed update.
ElkRcvAtIndex0(qc) == IF qc.StateIdx >= 1 THEN "ok" ELSE "elkrem: empty receiver"

\* SignBreakTx: the commitment transaction of the channel as handed over.
SignBreakTx(qc) ==
    [kind |-> "break", StateIdx |-> qc.StateIdx, MyAmt |-> qc.MyAmt,
     TheirAmt |-> qc.TheirAmt, Delta |-> qc.Delta]

\* SimpleCloseTx and SignSimpleClose: the close transaction of the balances.
SimpleCloseTx(qc) ==
    [kind |-> "close", StateIdx |-> qc.StateIdx, MyAmt |-> qc.MyAmt,
     TheirAmt |-> qc.TheirAmt, Delta |-> 0]

\* Updates begun on the channel so far.
Begun(q) == q.StateIdx + (IF q.Delta # 0 THEN 1 ELSE 0)

Room(queue, k) == Len(queue) + k <= MaxQueue

(***************************************************************************)
(* Shell commands                                                          *)
(***************************************************************************)

Done(op, e) == last' = [op |-> op, err |-> e]

InitShell ==
    /\ RemoteCon = FALSE
    /\ InProg = NoInProg
    /\ qchan = NoChan
    /\ push = NoPush
    /\ last = [op |-> "none", err |-> "ok"]
    /\ wallet = [signed |-> NoTx, pushed |-> NoTx]
    /\ peer = NoPeer
    /\ toPeer = <<>>
    /\ fromPeer = <<>>

\* FundChannel without the check that the slot is empty.
FundChannelBodyNoSlotCheck(cCap, iSend, haveFunds, writeOK) ==
    IF ~RemoteCon THEN [err |-> "Not connected to anyone", slot |-> InProg, out |-> <<>>]
    ELSE IF iSend < 0 \/ cCap < 0
    THEN [err |-> "Can't have negative send or capacity", slot |-> InProg, out |-> <<>>]
    ELSE IF cCap < MinCapacity
    THEN [err |-> "Min channe capacity 1M sat", slot |-> InProg, out |-> <<>>]
    ELSE IF iSend > cCap THEN [err |-> "Cant send", slot |-> InProg, out |-> <<>>]
    ELSE IF ~haveFunds THEN [err |-> "PickUtxos failed", slot |-> InProg, out |-> <<>>]
    ELSE IF NextIdxForPeer.err # "ok"
    THEN [err |-> NextIdxForPeer.err, slot |-> InProg, out |-> <<>>]
    ELSE LET slot == [ChanIdx |-> NextIdxForPeer.cIdx, PeerIdx |-> NextIdxForPeer.peerIdx,
                      Amt |-> cCap, InitSend |-> iSend]
         IN IF writeOK THEN [err |-> "ok", slot |-> slot, out |-> <<Msg("POINTREQ", 0, 0)>>]
            ELSE [err |-> "write failed", slot |-> slot, out |-> <<>>]

\* What FundChannel returns and the slot and the message it leaves behind.
\* haveFunds: PickUtxos finds the capacity; writeOK: the write succeeds.
FundChannelBody(cCap, iSend, haveFunds, writeOK) ==
    IF ~RemoteCon THEN [err |-> "Not connected to anyone", slot |-> InProg, out |-> <<>>]
    ELSE IF InProg.PeerIdx # 0
    THEN [err |-> "channel with peer not done yet", slot |-> InProg, out |-> <<>>]
    ELSE IF iSend < 0 \/ cCap < 0
    THEN [err |-> "Can't have negative send or capacity", slot |-> InProg, out |-> <<>>]
    ELSE IF cCap < MinCapacity
    THEN [err |-> "Min channe capacity 1M sat", slot |-> InProg, out |-> <<>>]
    ELSE IF iSend > cCap THEN [err |-> "Cant send", slot |-> InProg, out |-> <<>>]
    ELSE IF ~haveFunds THEN [err |-> "PickUtxos failed", slot |-> InProg, out |-> <<>>]
    ELSE IF NextIdxForPeer.err # "ok"
    THEN [err |-> NextIdxForPeer.err, slot |-> InProg, out |-> <<>>]
    ELSE LET slot == [ChanIdx |-> NextIdxForPeer.cIdx, PeerIdx |-> NextIdxForPeer.peerIdx,
                      Amt |-> cCap, InitSend |-> iSend]
         IN IF writeOK THEN [err |-> "ok", slot |-> slot, out |-> <<Msg("POINTREQ", 0, 0)>>]
            ELSE [err |-> "write failed", slot |-> slot, out |-> <<>>]

FundChannel(cCap, iSend, haveFunds, writeOK) ==
    LET r == FundChannelBody(cCap, iSend, haveFunds, writeOK) IN
    /\ push.pc = "idle"
    /\ ~qchan.Exists
    /\ Room(toPeer, Len(r.out))
    /\ InProg' = r.slot
    /\ toPeer' = toPeer \o r.out
    /\ Done("FundChannel", r.err)
    /\ UNCHANGED <<RemoteCon, qchan, push, wallet, peer, fromPeer, sorceVars>>

\* Resume without the check of the connection.
ResumeBodyNoConn(peerIdx, cIdx) ==
    IF GetPeerIdx.err # "ok" THEN [err |-> GetPeerIdx.err, out |-> <<>>]
    ELSE IF peerIdx # GetPeerIdx.idx THEN [err |-> "wrong peer", out |-> <<>>]
    ELSE LET g == GetQchanByIdx(peerIdx, cIdx) IN
    IF g.err # "ok" THEN [err |-> g.err, out |-> <<>>]
    ELSE [err |-> "ok", out |-> <<SendNextMsg(g.qc)>>]

\* What Resume returns and writes to the peer.
ResumeBody(peerIdx, cIdx) ==
    IF ~RemoteCon THEN [err |-> "Not connected to anyone, can't fix", out |-> <<>>]
    ELSE IF GetPeerIdx.err # "ok" THEN [err |-> GetPeerIdx.err, out |-> <<>>]
    ELSE IF peerIdx # GetPeerIdx.idx THEN [err |-> "wrong peer", out |-> <<>>]
    ELSE LET g == GetQchanByIdx(peerIdx, cIdx) IN
    IF g.err # "ok" THEN [err |-> g.err, out |-> <<>>]
    ELSE [err |-> "ok", out |-> <<SendNextMsg(g.qc)>>]

Resume(peerIdx, cIdx) ==
    LET r == ResumeBody(peerIdx, cIdx) IN
    /\ push.pc = "idle"
    /\ Room(toPeer, Len(r.out))
    /\ toPeer' = toPeer \o r.out
    /\ Done("Resume", r.err)
    /\ UNCHANGED <<RemoteCon, InProg, qchan, push, wallet, peer, fromPeer, sorceVars>>

\* Push's checks without the one of the amount.
PushChecksNoAmt(peerIdx, cIdx, amt) ==
    IF ~RemoteCon THEN "Not connected to anyone, can't push"
    ELSE IF GetPeerIdx.err # "ok" THEN GetPeerIdx.err
    ELSE IF peerIdx # GetPeerIdx.idx THEN "wrong peer"
    ELSE LET g == GetQchanByIdx(peerIdx, cIdx) IN
    IF g.err # "ok" THEN g.err
    ELSE IF g.qc.Closed THEN "channel is closed"
    ELSE "ok"

\* Push up to its loop: the error it returns, or "ok" to enter the loop.
PushChecks(peerIdx, cIdx, amt) ==
    IF ~RemoteCon THEN "Not connected to anyone, can't push"
    ELSE IF amt > MaxPush \/ amt < 1 THEN "max push is 1 coin"
    ELSE IF GetPeerIdx.err # "ok" THEN GetPeerIdx.err
    ELSE IF peerIdx # GetPeerIdx.idx THEN "wrong peer"
    ELSE LET g == GetQchanByIdx(peerIdx, cIdx) IN
    IF g.err # "ok" THEN g.err
    ELSE IF g.qc.Closed THEN "channel is closed"
    ELSE "ok"

\* The push command is entered; with times > 0 its loop is next.
Push(peerIdx, cIdx, amt, times) ==
    LET e == PushChecks(peerIdx, cIdx, amt) IN
    /\ push.pc = "idle"
    /\ (e = "ok" /\ times > 0) => Begun(qchan) + times <= MaxUpdates
    /\ push' = IF e = "ok" /\ times > 0
               THEN [pc |-> "loop", amt |-> amt, times |-> times]
               ELSE NoPush
    /\ Done("Push", e)
    /\ UNCHANGED <<RemoteCon, InProg, qchan, wallet, peer, toPeer, fromPeer, sorceVars>>

\* One turn of the loop up to the sleep: ReloadQchan, then PushChannel.
PushIter ==
    LET qc == ReloadQchan(qchan)
        r == PushChannel(qc, push.amt)
    IN
    /\ push.pc = "loop"
    /\ r.err = "ok" => Room(toPeer, 1)
    /\ IF r.err = "ok"
       THEN /\ qchan' = r.q
            /\ toPeer' = Append(toPeer, Msg("SIG", r.q.StateIdx + 1, push.amt))
            /\ push' = [push EXCEPT !.pc = "sleep"]
            /\ Done("step", "ok")
       ELSE /\ push' = NoPush
            /\ Done("Push", r.err)
            /\ UNCHANGED <<qchan, toPeer>>
    /\ UNCHANGED <<RemoteCon, InProg, wallet, peer, fromPeer, sorceVars>>

\* The end of the sleep: times--, and the loop again or the return.
PushSleep ==
    /\ push.pc = "sleep"
    /\ IF push.times - 1 > 0
       THEN /\ push' = [push EXCEPT !.pc = "loop", !.times = @ - 1]
            /\ Done("step", "ok")
       ELSE /\ push' = NoPush
            /\ Done("Push", "ok")
    /\ UNCHANGED <<RemoteCon, InProg, qchan, wallet, peer, toPeer, fromPeer, sorceVars>>

\* What CloseChannel returns and writes to the peer.  The error of the
\* write is dropped; nothing is saved.
CloseChannelBody(peerIdx, cIdx, writeOK) ==
    IF ~RemoteCon THEN [err |-> "Not connected to anyone", out |-> <<>>]
    ELSE IF GetPeerIdx.err # "ok" THEN [err |-> GetPeerIdx.err, out |-> <<>>]
    ELSE IF peerIdx # GetPeerIdx.idx THEN [err |-> "wrong peer", out |-> <<>>]
    ELSE LET g == GetQchanByIdx(peerIdx, cIdx) IN
    IF g.err # "ok" THEN [err |-> g.err, out |-> <<>>]
    ELSE IF writeOK THEN [err |-> "ok", out |-> <<Msg("CLOSEREQ", 0, 0)>>]
    ELSE [err |-> "ok", out |-> <<>>]

CloseChannel(peerIdx, cIdx, writeOK) ==
    LET r == CloseChannelBody(peerIdx, cIdx, writeOK) IN
    /\ push.pc = "idle"
    /\ Room(toPeer, Len(r.out))
    /\ toPeer' = toPeer \o r.out
    /\ Done("CloseChannel", r.err)
    /\ UNCHANGED <<RemoteCon, InProg, qchan, push, wallet, peer, fromPeer, sorceVars>>

\* What BreakChannel returns, signs and broadcasts.  signOK: SignBreakTx
\* succeeds; pushOK: the wallet's PushTx succeeds.
BreakChannelBody(peerIdx, cIdx, signOK, pushOK) ==
    LET g == GetQchanByIdx(peerIdx, cIdx) IN
    IF g.err # "ok" THEN [err |-> g.err, w |-> wallet]
    ELSE IF ElkRcvAtIndex0(g.qc) # "ok" THEN [err |-> ElkRcvAtIndex0(g.qc), w |-> wallet]
    ELSE LET qc == [g.qc EXCEPT !.Delta = 0] IN
    IF ~signOK THEN [err |-> "sign failed", w |-> wallet]
    ELSE LET tx == SignBreakTx(qc) IN
    IF ~pushOK THEN [err |-> "PushTx failed", w |-> [wallet EXCEPT !.signed = tx]]
    ELSE [err |-> "ok", w |-> [signed |-> tx, pushed |-> tx]]

BreakChannel(peerIdx, cIdx, signOK, pushOK) ==
    LET r == BreakChannelBody(peerIdx, cIdx, signOK, pushOK) IN
    /\ push.pc = "idle"
    /\ wallet' = r.w
    /\ Done("BreakChannel", r.err)
    /\ UNCHANGED <<RemoteCon, InProg, qchan, push, peer, toPeer, fromPeer, sorceVars>>

(***************************************************************************)
(* Messages from the peer (handlers of package qln; behaviour from the     *)
(* specification)                                                          *)
(***************************************************************************)

\* The handler of the next message from the peer.
Recv ==
    /\ fromPeer # <<>>
    /\ LET m == Head(fromPeer)
           r == CASE m.type = "SIG" /\ qchan.Exists -> OnSig(qchan, m)
                  [] m.type = "SIGREV" /\ qchan.Exists -> OnSigRev(qchan, m)
                  [] m.type = "REV" /\ qchan.Exists -> OnRev(qchan, m)
                  [] m.type \in {"CLOSEREQ", "CLOSERESP"} /\ qchan.Exists ->
                        [q |-> [qchan EXCEPT !.Closed = TRUE],
                         reply |-> IF m.type = "CLOSEREQ" /\ ~qchan.Closed
                                   THEN <<Msg("CLOSERESP", 0, 0)>> ELSE <<>>]
                  [] m.type = "POINTRESP" /\ InProg.PeerIdx # 0 /\ ~qchan.Exists ->
                        [q |-> [Exists |-> TRUE, Cap |-> InProg.Amt, StateIdx |-> 0,
                                MyAmt |-> InProg.Amt - InProg.InitSend,
                                TheirAmt |-> InProg.InitSend, Delta |-> 0,
                                Closed |-> FALSE],
                         reply |-> <<>>]
                  [] OTHER -> [q |-> qchan, reply |-> <<>>]
       IN /\ Room(toPeer, Len(r.reply))
          /\ qchan' = r.q
          /\ toPeer' = toPeer \o r.reply
          /\ InProg' = IF m.type = "POINTRESP" /\ r.q # qchan THEN NoInProg ELSE InProg
    /\ fromPeer' = Tail(fromPeer)
    /\ Done("step", "ok")
    /\ UNCHANGED <<RemoteCon, push, wallet, peer, sorceVars>>

(***************************************************************************)
(* The peer and the connection                                             *)
(***************************************************************************)

\* The peer's channel as a channel record, to run the same handlers.
PeerChan == [Exists |-> TRUE, Cap |-> 0, StateIdx |-> peer.StateIdx, MyAmt |-> 0,
             TheirAmt |-> 0, Delta |-> peer.Delta, Closed |-> peer.Closed]
PeerOf(q) == [StateIdx |-> q.StateIdx, Delta |-> q.Delta, Closed |-> q.Closed]

PeerRecv ==
    /\ toPeer # <<>>
    /\ LET m == Head(toPeer)
           r == CASE m.type = "SIG" -> OnSig(PeerChan, m)
                  [] m.type = "SIGREV" -> OnSigRev(PeerChan, m)
                  [] m.type = "REV" -> OnRev(PeerChan, m)
                  [] m.type \in {"CLOSEREQ", "CLOSERESP"} ->
                        [q |-> [PeerChan EXCEPT !.Closed = TRUE],
                         reply |-> IF m.type = "CLOSEREQ" /\ ~peer.Closed
                                   THEN <<Msg("CLOSERESP", 0, 0)>> ELSE <<>>]
                  [] m.type = "POINTREQ" ->
                        [q |-> PeerChan, reply |-> <<Msg("POINTRESP", 0, 0)>>]
                  [] OTHER -> [q |-> PeerChan, reply |-> <<>>]
       IN /\ Room(fromPeer, Len(r.reply))
          /\ peer' = PeerOf(r.q)
          /\ fromPeer' = fromPeer \o r.reply
    /\ toPeer' = Tail(toPeer)
    /\ Done("step", "ok")
    /\ UNCHANGED <<RemoteCon, InProg, qchan, push, wallet, sorceVars>>

\* The peer pushes to us, whatever we are doing at the time.
PeerPush(amt) ==
    /\ RemoteCon /\ qchan.Exists
    /\ peer.Delta = 0 /\ ~peer.Closed
    /\ amt <= qchan.TheirAmt - MinBal
    /\ Begun(PeerChan) < MaxUpdates
    /\ Begun(qchan) + (IF push.pc # "idle" THEN push.times ELSE 0) < MaxUpdates
    /\ Room(fromPeer, 1)
    /\ peer' = [peer EXCEPT !.Delta = amt]
    /\ fromPeer' = Append(fromPeer, Msg("SIG", peer.StateIdx + 1, amt))
    /\ Done("step", "ok")
    /\ UNCHANGED <<RemoteCon, InProg, qchan, push, wallet, toPeer, sorceVars>>

\* The peer asks for a cooperative close.
PeerClose ==
    /\ RemoteCon /\ qchan.Exists /\ ~peer.Closed
    /\ Room(fromPeer, 1)
    /\ peer' = [peer EXCEPT !.Closed = TRUE]
    /\ fromPeer' = Append(fromPeer, Msg("CLOSEREQ", 0, 0))
    /\ Done("step", "ok")
    /\ UNCHANGED <<RemoteCon, InProg, qchan, push, wallet, toPeer, sorceVars>>

Connect ==
    /\ ~RemoteCon
    /\ RemoteCon' = TRUE
    /\ Done("step", "ok")
    /\ UNCHANGED <<InProg, qchan, push, wallet, peer, toPeer, fromPeer, sorceVars>>

\* The connection is lost with what was in flight.
Disconnect ==
    /\ RemoteCon
    /\ RemoteCon' = FALSE
    /\ toPeer' = <<>>
    /\ fromPeer' = <<>>
    /\ Done("step", "ok")
    /\ UNCHANGED <<InProg, qchan, push, wallet, peer, sorceVars>>

NextShell ==
    \/ \E c \in Capacities, s \in InitSends, f \in BOOLEAN, w \in BOOLEAN :
            FundChannel(c, s, f, w)
    \/ \E p \in PeerIdxs, c \in ChanIdxs : Resume(p, c)
    \/ \E p \in PeerIdxs, c \in ChanIdxs, a \in PushAmts, t \in PushTimes : Push(p, c, a, t)
    \/ PushIter
    \/ PushSleep
    \/ \E p \in PeerIdxs, c \in ChanIdxs, w \in BOOLEAN : CloseChannel(p, c, w)
    \/ \E p \in PeerIdxs, c \in ChanIdxs, so \in BOOLEAN, po \in BOOLEAN :
            BreakChannel(p, c, so, po)
    \/ Recv
    \/ PeerRecv
    \/ \E a \in PeerPushAmts : PeerPush(a)
    \/ PeerClose
    \/ Connect
    \/ Disconnect

(***************************************************************************)
(* Specifications: the sorceror alone, and the shell alone                 *)
(***************************************************************************)

Init == InitSorce /\ InitShell

SpecSorceror == Init /\ [][NextSorce]_vars

SpecShell == Init /\ [][NextShell]_vars

(***************************************************************************)
(* Sorceror: properties                                                    *)
(***************************************************************************)

\* The parts of a txid record.
RecIdxBytes(rec) == SubSeq(rec, 1, 4)
RecStateNum(rec) == BtI(SubSeq(rec, 5, 10))
RecSig(rec) == rec[11]
RecLen == Len(SigIdxBytes(U32tB(0), I64tB(0), 0))

\* The records held in a value of the txid bucket: the value cut into
\* pieces of one record's length.
RECURSIVE RecordsIn(_)
RecordsIn(val) ==
    IF Len(val) < RecLen THEN {}
    ELSE {SubSeq(val, 1, RecLen)} \cup RecordsIn(SubSeq(val, RecLen + 1, Len(val)))

\* The receiver stored for a channel, and the hash its chain continues with.
StoredReceiver(d, pkh) ==
    ElkremReceiverFromBytes(d[BUCKETChandata][pkh][KEYElkRcv]).rcv
NextHashOf(rcv) == <<rcv[1][1], Len(rcv)>>

\* C1: when AddMsg stores a record for a txid under a key that already
\* holds the record of another txid (same leading 8 bytes), the earlier
\* record stays under the key beside the new one, and CheckTxids called
\* with one such txid returns a candidate for every txid stored under its
\* key.
C1_CollidingRecordsKept ==
    [][ /\ \A k \in DOMAIN owners' :
              (k \in DOMAIN owners /\ owners'[k] # owners[k])
                  => /\ RecordsIn(db[BUCKETTxid][k]) \subseteq RecordsIn(db'[BUCKETTxid][k])
                     /\ Cardinality(RecordsIn(db'[BUCKETTxid][k]))
                            >= Cardinality(owners'[k])
        /\ (tret'.op = "CheckTxids" /\ tret'.n = 1 /\ Len(tret'.hits) >= 1)
              => Len(tret'.hits) >= Cardinality(OwnersOf(TxidKey(tret'.hits[1].Txid)))
      ]_vars

\* C2: an AddMsg for a watched channel whose hash is not the next hash of
\* the channel's elkrem chain returns an error, leaves the stored receiver
\* as it was and writes nothing to the txid bucket.
C2_ElkremInconsistencyRejected ==
    [][ (/\ tret'.op = "AddMsg"
         /\ tret'.arg[1] \in DOMAIN db[BUCKETChandata]
         /\ tret'.arg[2] # NextHashOf(StoredReceiver(db, tret'.arg[1])))
        => /\ tret'.err # "ok"
           /\ db'[BUCKETChandata][tret'.arg[1]][KEYElkRcv]
                = db[BUCKETChandata][tret'.arg[1]][KEYElkRcv]
           /\ db'[BUCKETTxid] = db[BUCKETTxid]
      ]_vars

\* C2 witness: h2 of the right chain was refused by a receiver holding h0 only.
C2_Witness ==
    /\ tret.op = "AddMsg"
    /\ tret.err = "elkrem: hash does not match"
    /\ tret.arg[1] \in DOMAIN db[BUCKETChandata]
    /\ StoredReceiver(db, tret.arg[1]) = << <<1, 0>> >>
    /\ tret.arg[2] = <<1, 2>>

\* C3: every StateMsg CheckTxids returns carries the signature of the
\* record stored under its txid and names the channel of that record.
\* (A StateMsg has no field for the state number.)
C3_HitsCarryRecord ==
    tret.op = "CheckTxids" =>
        \A i \in 1..Len(tret.hits) :
            LET rec == db[BUCKETTxid][TxidKey(tret.hits[i].Txid)] IN
            /\ tret.hits[i].Sig = RecSig(rec)
            /\ tret.hits[i].DestPKHScript = db[BUCKETPKHMap][RecIdxBytes(rec)]

\* C4: an AddDesc or AddMsg that returns an error leaves every bucket as
\* it was before the call.
C4_FailedWriteChangesNothing ==
    [][ (tret'.op \in {"AddDesc", "AddMsg"} /\ tret'.err # "ok") => db' = db ]_vars

\* C4 witness: AddMsg failed at its last put, after it had written the
\* receiver inside the transaction.
C4_Witness ==
    /\ tret.op = "AddMsg"
    /\ tret.err = "put txid failed"
    /\ tret.arg[2] = NextHashOf(StoredReceiver(db, tret.arg[1]))

(***************************************************************************)
(* Shell: properties                                                       *)
(***************************************************************************)

\* A step that starts an update of mine: the delta becomes positive.
StartsPush == qchan.Exists /\ qchan'.Delta > 0 /\ qchan'.Delta # qchan.Delta

\* A step of the push loop that calls PushChannel.
CallsPushChannel == push.pc = "loop" /\ push' # push

\* C5: a push of mine starts only on a channel whose delta is 0, and a
\* turn of the push loop that finds the delta non-zero is rejected: it
\* returns an error, ends the command and leaves the channel and the
\* messages to the peer as they were.
C5_OneUpdateInFlight ==
    [][ /\ StartsPush => qchan.Delta = 0
        /\ (CallsPushChannel /\ qchan.Delta # 0)
              => /\ last'.op = "Push" /\ last'.err # "ok"
                 /\ push' = NoPush
                 /\ qchan' = qchan
                 /\ toPeer' = toPeer
      ]_vars

\* C5 witness: a turn of the push loop was rejected because the update
\* started by an earlier turn was still in flight.
C5_Witness ==
    /\ last = [op |-> "Push", err |-> "update in progress"]
    /\ qchan.Delta > 0
    /\ qchan.StateIdx = 0

\* C6: the two balances of a channel always add up to its capacity; a
\* step that completes an update moves exactly the delta from the pusher
\* to the recipient, and every other step leaves the balances alone.
C6_BalanceConserved ==
    [][ /\ qchan'.Exists => qchan'.MyAmt + qchan'.TheirAmt = qchan'.Cap
        /\ (qchan.Exists /\ qchan'.StateIdx # qchan.StateIdx)
              => /\ qchan'.MyAmt = qchan.MyAmt - qchan.Delta
                 /\ qchan'.TheirAmt = qchan.TheirAmt + qchan.Delta
        /\ (qchan.Exists /\ qchan'.StateIdx = qchan.StateIdx)
              => /\ qchan'.MyAmt = qchan.MyAmt
                 /\ qchan'.TheirAmt = qchan.TheirAmt
      ]_vars

\* C6 witness: a push of 3 by me and then a push of 2 by the peer have
\* completed.
C6_Witness ==
    /\ qchan.Exists /\ qchan.StateIdx = 2 /\ qchan.Delta = 0
    /\ qchan.MyAmt = qchan.Cap - 3 + 2
    /\ qchan.TheirAmt = 3 - 2

\* C7: Resume leaves the stored channel as it is, and the state index
\* only ever moves by 1, from a channel with an update in flight to a clean
\* one: however often the last message was sent again, the replies to it
\* complete the update once.
C7_ResumeIdempotent ==
    [][ /\ last'.op = "Resume" => qchan' = qchan
        /\ (qchan.Exists /\ qchan'.StateIdx # qchan.StateIdx)
              => /\ qchan'.StateIdx = qchan.StateIdx + 1
                 /\ qchan.Delta # 0
                 /\ qchan'.Delta = 0
      ]_vars

\* C7 witness: the update was completed by the first of two SIGREVs; the
\* second, the answer to the SIG that Resume sent again, is still to come.
C7_Witness ==
    /\ qchan.StateIdx = 1 /\ qchan.Delta = 0
    /\ \E i \in 1..Len(fromPeer) :
          fromPeer[i].type = "SIGREV" /\ fromPeer[i].idx = qchan.StateIdx

\* C8: no turn of the push loop calls PushChannel for a channel that is
\* stored as closed.
C8_NoPushChannelOnClosed ==
    [][ CallsPushChannel => ~qchan.Closed ]_vars

\* C9: a CloseChannel that writes CLOSEREQ does so for a channel that is
\* not yet stored as closed, and leaves it stored as closed (so that no
\* second CloseChannel writes CLOSEREQ for it).
C9_CloseMarksClosed ==
    [][ (last'.op = "CloseChannel" /\ toPeer' # toPeer)
            => (~qchan.Closed /\ qchan'.Closed) ]_vars

\* C10: BreakChannel for a channel stored as closed returns an error and
\* neither signs nor broadcasts a transaction.
C10_BreakAfterClosedRejected ==
    [][ \A p \in PeerIdxs, c \in ChanIdxs, so \in BOOLEAN, po \in BOOLEAN :
            (/\ BreakChannel(p, c, so, po)
             /\ GetQchanByIdx(p, c).err = "ok"
             /\ GetQchanByIdx(p, c).qc.Closed)
            => /\ last'.err # "ok"
               /\ wallet' = wallet
      ]_vars

\* C11: a BreakChannel that gets as far as signing, for a channel with an
\* update in flight, signs the transaction of the committed balances with
\* delta 0, broadcasts nothing unless the signing succeeded, and leaves
\* the stored channel with delta 0.
C11_BreakDiscardsUpdate ==
    [][ \A p \in PeerIdxs, c \in ChanIdxs, so \in BOOLEAN, po \in BOOLEAN :
            (/\ BreakChannel(p, c, so, po)
             /\ GetQchanByIdx(p, c).err = "ok"
             /\ ElkRcvAtIndex0(qchan) = "ok"
             /\ qchan.Delta # 0)
            => /\ so => /\ wallet'.signed.kind = "break"
                        /\ wallet'.signed.Delta = 0
                        /\ wallet'.signed.MyAmt = qchan.MyAmt
                        /\ wallet'.signed.TheirAmt = qchan.TheirAmt
               /\ ~so => wallet' = wallet
               /\ wallet'.pushed # wallet.pushed => (so /\ wallet'.pushed = wallet'.signed)
               /\ qchan'.Delta = 0
      ]_vars

\* The amounts Push is to refuse.
BadPushAmts == {a \in PushAmts : a < 1 \/ a > MaxPush}

\* C12: a Push with an amount below 1 or above 100,000,000 returns an
\* error and does not enter its loop (no reload, no PushChannel), leaves the
\* stored channel alone and writes nothing to the peer; and every turn of
\* the loop hands PushChannel an amount between 1 and 100,000,000.
C12_PushAmountBounds ==
    [][ /\ (push.pc = "idle" /\ last'.op = "Push")
              => \A p \in PeerIdxs, c \in ChanIdxs, a \in BadPushAmts, t \in PushTimes :
                    Push(p, c, a, t)
                        => /\ last'.err # "ok"
                           /\ push' = NoPush
                           /\ qchan' = qchan
                           /\ toPeer' = toPeer
        /\ CallsPushChannel => (push.amt >= 1 /\ push.amt <= MaxPush)
      ]_vars

\* C12 witness: a push of a bad amount was refused for an open channel of
\* the connected peer.
C12_Witness ==
    /\ last = [op |-> "Push", err |-> "max push is 1 coin"]
    /\ RemoteCon /\ qchan.Exists /\ ~qchan.Closed /\ qchan.Delta = 0

\* What a refused command is to leave alone.
RefusedFrame == toPeer' = toPeer /\ qchan' = qchan /\ InProg' = InProg

\* A peer index that is not the connected peer's, or no such channel.
BadTarget(p, c) == p # GetPeerIdx.idx \/ GetQchanByIdx(p, c).err # "ok"

\* C13: FundChannel, Push, Resume and CloseChannel entered without a
\* connection return an error; Push, Resume and CloseChannel return an
\* error for a peer index that is not the connected peer's and for a
\* channel that does not exist; and the refused command writes nothing to
\* the peer and leaves the stored channel and the funding slot alone.
C13_RefusedChangesNothing ==
    [][ (push.pc = "idle" /\ last'.op \in {"FundChannel", "Push", "Resume", "CloseChannel"})
        => /\ ~RemoteCon => (last'.err # "ok" /\ RefusedFrame)
           /\ last'.op # "FundChannel"
                => /\ \A p \in PeerIdxs, c \in ChanIdxs :
                         BadTarget(p, c)
                            => /\ ResumeBody(p, c).err # "ok"
                               /\ ResumeBody(p, c).out = <<>>
                               /\ \A w \in BOOLEAN :
                                     /\ CloseChannelBody(p, c, w).err # "ok"
                                     /\ CloseChannelBody(p, c, w).out = <<>>
                               /\ \A a \in PushAmts : PushChecks(p, c, a) # "ok"
                   /\ last'.err # "ok" => RefusedFrame
      ]_vars

\* C13 witness: with a peer connected and the channel stored, a cclose
\* naming another peer was refused.
C13_Witness ==
    /\ last = [op |-> "CloseChannel", err |-> "wrong peer"]
    /\ RemoteCon /\ qchan.Exists

\* C14: a FundChannel that returns an error leaves the funding slot as it
\* was before the call.
C14_FailedFundingClean ==
    [][ (last'.op = "FundChannel" /\ last'.err # "ok") => InProg' = InProg ]_vars

(***************************************************************************)
(* Sorceror: more properties                                               *)
(***************************************************************************)

\* The hashes a receiver holds.
HashesOf(rcv) == {rcv[i] : i \in 1..Len(rcv)}

\* C15: an AddMsg that carries a hash the channel's receiver has already
\* accepted from a message (the same message submitted again) leaves the
\* whole store as it was after the first submission.
C15_ResubmissionChangesNothing ==
    [][ (/\ tret'.op = "AddMsg"
         /\ tret'.arg[1] \in DOMAIN db[BUCKETChandata]
         /\ tret'.arg[2] \in HashesOf(StoredReceiver(db, tret'.arg[1]))
         /\ tret'.arg[2][2] >= 1)
        => db' = db
      ]_vars

\* C15 witness: the message with h1 came again after h1 and h2 had been
\* accepted, and was refused.
C15_Witness ==
    /\ tret.op = "AddMsg"
    /\ tret.err = "elkrem: hash does not match"
    /\ tret.arg[1] \in DOMAIN db[BUCKETChandata]
    /\ StoredReceiver(db, tret.arg[1]) = << <<1, 0>>, <<1, 1>>, <<1, 2>> >>
    /\ tret.arg[2] = <<1, 1>>

\* The watched channels, and the keys of a channel group.
WatchedPKHs == DOMAIN db[BUCKETChandata]
GroupKeys == {KEYStatic, KEYElkRcv, KEYIdx}

StoredUpTo(d, pkh) == UpTo(StoredReceiver(d, pkh))

\* The keys of the txid bucket written by a step.
WrittenTxidKeys ==
    {k \in DOMAIN db'[BUCKETTxid] :
        k \notin DOMAIN db[BUCKETTxid] \/ db'[BUCKETTxid][k] # db[BUCKETTxid][k]}

StoredTxids == UNION {owners[k] : k \in DOMAIN owners}

\* A txid whose leading 8 bytes are those of a stored txid.
PrefixStored(txid) == \E o \in StoredTxids : o[1] = txid[1]

\* C18: a CheckTxids call returns one hit for every input txid whose
\* leading 8 bytes are those of a txid AddMsg has ever stored, and none
\* for any other, in the order of the input, each hit naming its input;
\* and it leaves the store as it is.
C18_DetectionPermanent ==
    [][ tret'.op = "CheckTxids"
        => /\ db' = db
           /\ \A txs \in TxidLists :
                 CheckTxids(txs)
                    => LET want == SelectSeq(txs, PrefixStored) IN
                       /\ Len(tret'.hits) = Len(want)
                       /\ \A i \in 1..Len(want) :
                             tret'.hits[i].Txid = TxidCopy16(want[i])
      ]_vars

\* C18 witness: a txid that was never stored itself is reported because
\* its leading 8 bytes are those of a stored one, after a txid that is
\* not reported.
C18_Witness ==
    /\ tret.op = "CheckTxids"
    /\ tret.n = 2
    /\ Len(tret.hits) = 1
    /\ \A o \in StoredTxids : TxidCopy16(o) # tret.hits[1].Txid
    /\ Cardinality(WatchedPKHs) = 2

\* C19: FundChannel called with the slot occupied returns an error and
\* leaves the slot as it is, so it writes the slot only when it is empty;
\* and an occupied slot holds a capacity of at least 1,000,000 and an
\* initial send between 0 and the capacity.
C19_SlotInvariant ==
    [][ /\ (last'.op = "FundChannel" /\ InProg.PeerIdx # 0)
              => (last'.err # "ok" /\ InProg' = InProg)
        /\ (last'.op = "FundChannel" /\ InProg' # InProg) => InProg.PeerIdx = 0
        /\ InProg'.PeerIdx # 0
              => /\ InProg'.Amt >= MinCapacity
                 /\ 0 <= InProg'.InitSend
                 /\ InProg'.InitSend <= InProg'.Amt
      ]_vars

\* C19 witness: a fund command was refused because the slot was occupied.
C19_Witness ==
    /\ last = [op |-> "FundChannel", err |-> "channel with peer not done yet"]
    /\ InProg.PeerIdx # 0
    /\ InProg.Amt = MinCapacity

====
